---- MODULE Spec2Model ----
(***************************************************************************)
(* Extraction pipeline of the YouTube extraction node: extractAudio with   *)
(* its persona (client) fallback loop, the per-client timeout race, the    *)
(* yt-dlp fallback and the lazily created Innertube session.               *)
(*                                                                         *)
(* One extractAudio call runs at a time; calls follow one another.  Every  *)
(* await of the code is a pc value, every settlement of an awaited promise *)
(* is an action, which also runs the code that follows the await up to the *)
(* next await (the continuation is a microtask of the settlement).         *)
(***************************************************************************)
EXTENDS Integers, Sequences, FiniteSets, TLC

\* ------------------------------------------------------------------ bounds
MaxOrderLen == 2
MaxFormats == 3
MaxCreations == 3
MaxClock == 2

\* ------------------------------------------------------------------ values
\* VALID_CLIENTS: the recognized persona names (A = WEB, B = ANDROID,
\* C = TV_EMBEDDED).
VALID_CLIENTS == {"WEB", "ANDROID", "TV_EMBEDDED"}

\* Strings a caller may put in the "clients" field of the request body.
ClientNames == VALID_CLIENTS \cup {"X"}

VideoIds == {"v1", "v2"}

\* process.env as read by config.ts; "" stands for an unset (or empty) variable.
Envs == [NODE_TYPE : {"", "residential", "fly", "datacenter"},
         FLY_APP_NAME : {"", "extractor"}]

SeqsUpTo(S, n) == UNION {[1..k -> S] : k \in 0..n}

\* The optional clientOrder argument: given = FALSE is undefined.
ClientOrders == {[given |-> FALSE, list |-> <<>>]}
                \cup {[given |-> TRUE, list |-> l] : l \in SeqsUpTo(ClientNames, MaxOrderLen)}

\* What a fulfilled innertube.getInfo carries, as far as the loop looks at it:
\* no adaptive formats, adaptive formats none of which is audio, or audio formats.
InfoKinds == {"noFormats", "noAudio", "ok"}

\* Error values.  attempt is the 1-based position of the persona attempt that
\* threw it (0 when it is not thrown by a persona attempt): it stands for the
\* identity of the Error object.
Err(kind, client, attempt) == [kind |-> kind, client |-> client, attempt |-> attempt]
NoError == Err("none", "", 0)
\* new Error(`${client} timed out`)
TimedOut(client, k) == Err("timeout", client, k)
\* rejection of innertube.getInfo
QueryFailed(client, k) == Err("query", client, k)
\* what downloadAudio throws
DownloadFailed(client, k) == Err("download", client, k)
\* what extractWithYtDlp throws
YtDlpFailed == Err("ytdlp", "", 0)
\* new Error("No client returned playable streaming data")
NoPlayableData == Err("noPlayable", "", 0)
\* rejection of Innertube.create
CreateFailed == Err("create", "", 0)

NoResult == [kind |-> "none", source |-> "", attempt |-> 0, videoId |-> "", error |-> NoError]
Audio(source, k, vid) == [kind |-> "audio", source |-> source, attempt |-> k, videoId |-> vid, error |-> NoError]
Thrown(e, vid) == [kind |-> "error", source |-> "", attempt |-> 0, videoId |-> vid, error |-> e]

VARIABLES
  env,                \* process.env
  innertubeInstance,  \* the module-level session: 0 is null, 1 the created session
  pc,                 \* where the current call is suspended
  videoId,            \* argument
  clientOrder,        \* argument
  innertube,          \* local const innertube: 0 until getInnertube has returned
  clients,            \* local const clients
  idx,                \* position in clients of the for-of loop
  lastError,          \* local let lastError
  races,              \* one entry per persona attempt: the getInfo promise, the timer, Promise.race
  result,             \* what the call returned or threw
  attempted,          \* history: the personas for which getInfo was called, in order
  concluded,          \* history: how each persona attempt ended
  legacyCalls         \* history: number of extractWithYtDlp invocations of this call

\* One persona attempt's format selection, taken alone (SpecFormats).
VARIABLES
  adaptive_formats,   \* info.streaming_data.adaptive_formats
  bestAudio,          \* position in adaptive_formats of the selected format, 0 while none
  fsPc                \* "query": info just arrived; then how lines 82-100 ended

fsVars == <<adaptive_formats, bestAudio, fsPc>>

\* One resolveUrl call, taken alone (SpecResolve).
VARIABLES
  player,             \* innertube.session?.player: TRUE when there is one
  format,             \* the argument: what its decipher does, its url field
  playerDecipher,     \* what player.decipher does for this format
  ruPc,               \* where resolveUrl is suspended
  ruTried,            \* history: the strategies invoked, in order
  audioUrl            \* what resolveUrl returned

ruVars == <<player, format, playerDecipher, ruPc, ruTried, audioUrl>>

\* One downloadAudio call, taken alone (SpecDownload).
VARIABLES
  resource,           \* the size in bytes of what the URL serves
  dlPc,               \* where downloadAudio / downloadChunked is suspended
  dlRequests,         \* history: the requests sent, in order
  fullResp,           \* the response to the full GET
  fullOutcome,        \* history: how the full GET phase ended
  fullBody,           \* history: what was done with the full GET's body
  resp,               \* the latest response to a range request
  totalSize,          \* downloadChunked's totalSize
  start,              \* downloadChunked's loop variable
  chunks,             \* downloadChunked's chunks
  bodiesRead,         \* history: range response bodies read so far
  dlResult,           \* the payload returned
  dlError             \* the message of the error thrown

dlVars == <<resource, dlPc, dlRequests, fullResp, fullOutcome, fullBody, resp,
            totalSize, start, chunks, bodiesRead, dlResult, dlError>>

\* Overlapping getInnertube calls on the shared innertubeInstance (SpecSession).
VARIABLES
  getCalls,           \* per caller: where its getInnertube call is, what it got
  creations,          \* history: number of Innertube.create calls started
  settleOrder         \* history: the creations that settled, in order, and how

siVars == <<getCalls, creations, settleOrder>>

\* Overlapping extractWithYtDlp invocations on one tmpdir (SpecYtDlp).
VARIABLES
  now,                \* Date.now()
  tmpFiles,           \* the files of tmpdir() named yt-<videoId>-<stamp>.<ext>
  ytCalls             \* per invocation: where it is suspended, its locals

ytVars == <<now, tmpFiles, ytCalls>>

\* Everything outside the extractAudio loop's own state.
subVars == <<fsVars, ruVars, dlVars, siVars, ytVars>>

vars == <<env, innertubeInstance, pc, videoId, clientOrder, innertube, clients,
          idx, lastError, races, result, attempted, concluded, legacyCalls, subVars>>

\* ------------------------------------------------------------------ config.ts
\* Boolean(process.env.FLY_APP_NAME)
isFly(e) == e.FLY_APP_NAME # ""

\* config.nodeType
nodeType(e) == IF e.NODE_TYPE # "" THEN e.NODE_TYPE
               ELSE IF isFly(e) THEN "fly" ELSE "residential"

\* ------------------------------------------------------------------ extractAudio: ordering
defaultOrderSwapped(nt) == IF nt = "residential"
                           THEN <<"ANDROID", "TV_EMBEDDED", "WEB">>
                           ELSE <<"WEB", "ANDROID", "TV_EMBEDDED">>

defaultOrder(nt) == IF nt = "residential"
                    THEN <<"WEB", "ANDROID", "TV_EMBEDDED">>
                    ELSE <<"ANDROID", "TV_EMBEDDED", "WEB">>

\* The recognized names in the order of VALID_CLIENTS, each once, instead of the
\* order the caller gave.
FilterValidCanonical(list) ==
  SelectSeq(<<"WEB", "ANDROID", "TV_EMBEDDED">>, LAMBDA c : \E i \in 1..Len(list) : list[i] = c)

\* No filtering at all.
FilterValidNone(list) == list

\* clientOrder.filter((c) => VALID_CLIENTS.has(c))
FilterValid(list) == SelectSeq(list, LAMBDA c : c \in VALID_CLIENTS)

\* The default is derived again when filtering leaves nothing.
EffectiveClientsRederive(order, nt) ==
  IF order.given /\ Len(FilterValid(order.list)) > 0 THEN FilterValid(order.list) ELSE defaultOrder(nt)

\* const clients = clientOrder?.length ? clientOrder.filter(...) : defaultOrder
EffectiveClients(order, nt) ==
  IF order.given /\ Len(order.list) > 0 THEN FilterValid(order.list) ELSE defaultOrder(nt)

\* ------------------------------------------------------------------ extractAudio: loop
\* The last persona is left out.
HasNextShort(i, cl) == i < Len(cl)

\* for (const client of clients): is there an i-th persona
HasNext(i, cl) == i <= Len(cl)

Outcomes == {"queryError", "timeout", "noFormats", "noAudio", "noUrl", "downloadFailed", "success"}

\* The return after a successful download is missing.
LoopContinuesAlways(o) == TRUE

\* A format without a usable URL ends the loop, as a throw outside the try would.
LoopContinuesUnlessNoUrl(o) == o \notin {"success", "noUrl"}

\* Which ways of ending a persona attempt go on to the next iteration: the three
\* "continue" statements and the two catch blocks; a successful download returns.
LoopContinues(o) == o # "success"

\* No catch block records anything.
LastErrorAfterNone(o, prev, e) == prev

\* lastError after a persona attempt ended in o, e being the error of that
\* attempt: only the two catch blocks assign lastError.
LastErrorAfter(o, prev, e) ==
  IF o \in {"queryError", "timeout", "downloadFailed"} THEN e ELSE prev

\* The yt-dlp error is surfaced when no persona error was recorded.
SurfacedErrorLegacyIfNone(last, ytdlpError) == IF last # NoError THEN last ELSE ytdlpError

\* The yt-dlp error is surfaced.
SurfacedErrorLegacy(last, ytdlpError) == ytdlpError

\* throw lastError || new Error("No client returned playable streaming data")
\* (the caught ytdlpError is logged and dropped)
SurfacedError(last, ytdlpError) == IF last # NoError THEN last ELSE NoPlayableData

\* ------------------------------------------------------------------ Promise.race
\* One persona attempt's promises.  query: the getInfo promise (pending or
\* settled); settled, info: the state of Promise.race([clientPromise, timeout]).
NewRace == [query |-> "pending", settled |-> "pending", info |-> ""]

\* The last settlement overwrites the race.
RaceSettleLast(r, how, info) == [r EXCEPT !.settled = how, !.info = info]

\* Promise.race: the first settlement of an input settles the race, later ones
\* are ignored.
RaceSettle(r, how, info) ==
  IF r.settled = "pending" THEN [r EXCEPT !.settled = how, !.info = info] ELSE r

\* How a getInfo settlement i (an info kind, or "reject") reaches the race.
QuerySettled(r, i) ==
  [RaceSettle(r, IF i = "reject" THEN "queryError" ELSE "info", IF i = "reject" THEN "" ELSE i)
     EXCEPT !.query = "settled"]

\* ------------------------------------------------------------------ actions
\* No format selection under way.
FsIdle == adaptive_formats = <<>> /\ bestAudio = 0 /\ fsPc = "idle"

\* No resolveUrl call under way.
RuIdle ==
  /\ player = FALSE
  /\ format = [decipher |-> "none", url |-> "undefined"]
  /\ playerDecipher = ""
  /\ ruPc = "idle"
  /\ ruTried = <<>>
  /\ audioUrl = "pending"

\* A response not yet received.
NoHeader == [kind |-> "absent", n |-> 0]

NoResponse == [status |-> 0, header |-> NoHeader, readable |-> FALSE, len |-> 0]

\* No downloadAudio call under way.
DlIdle ==
  /\ resource = 0
  /\ dlPc = "idle"
  /\ dlRequests = <<>>
  /\ fullResp = NoResponse
  /\ fullOutcome = "none"
  /\ fullBody = "none"
  /\ resp = NoResponse
  /\ totalSize = 0
  /\ start = 0
  /\ chunks = <<>>
  /\ bodiesRead = 0
  /\ dlResult = <<>>
  /\ dlError = ""

\* The extractAudio calls that overlap in the process.
Callers == {"c1", "c2", "c3"}

\* A caller with no getInnertube call under way.
NoGetCall == [pc |-> "idle", creation |-> 0, session |-> 0, cached |-> FALSE]

\* No getInnertube call under way, no creation ever started.
SiIdle ==
  /\ getCalls = [c \in Callers |-> NoGetCall]
  /\ creations = 0
  /\ settleOrder = <<>>

\* The extractWithYtDlp invocations of the process, each followed from its call
\* to its return or throw; they may overlap.
Invocations == {"i1", "i2"}

\* No file name.
NoName == [video |-> "", stamp |-> 0]

\* No file.
NoFile == [video |-> "", stamp |-> 0, producer |-> "", complete |-> FALSE]

\* An invocation not under way.
NoYtCall ==
  [pc |-> "idle", video |-> "", stamp |-> 0, outputFile |-> NoName, data |-> NoFile,
   pending |-> {}, error |-> "", cleanupFailed |-> FALSE, tookFrom |-> ""]

\* No extractWithYtDlp invocation under way, tmpdir holding none of its files.
YtIdle ==
  /\ now = 1
  /\ tmpFiles = {}
  /\ ytCalls = [i \in Invocations |-> NoYtCall]

\* The sub-operations at rest.
SubIdle == FsIdle /\ RuIdle /\ DlIdle /\ SiIdle /\ YtIdle

\* The extractAudio loop at rest, on a residential node.
LoopIdle ==
  /\ env = [NODE_TYPE |-> "", FLY_APP_NAME |-> ""]
  /\ innertubeInstance = 0
  /\ pc = "idle"
  /\ videoId = ""
  /\ clientOrder = [given |-> FALSE, list |-> <<>>]
  /\ innertube = 0
  /\ clients = <<>>
  /\ idx = 0
  /\ lastError = NoError
  /\ races = <<>>
  /\ result = NoResult
  /\ attempted = <<>>
  /\ concluded = <<>>
  /\ legacyCalls = 0

Init ==
  /\ SubIdle
  /\ env \in Envs
  /\ innertubeInstance = 0
  /\ pc = "idle"
  /\ videoId = ""
  /\ clientOrder = [given |-> FALSE, list |-> <<>>]
  /\ innertube = 0
  /\ clients = <<>>
  /\ idx = 0
  /\ lastError = NoError
  /\ races = <<>>
  /\ result = NoResult
  /\ attempted = <<>>
  /\ concluded = <<>>
  /\ legacyCalls = 0

\* Top of iteration i over cl, up to the await of Promise.race: getInfo is
\* called and the timer armed; with no i-th persona the loop is left and
\* extractWithYtDlp is called.  att, rc, legacy: attempted, races and
\* legacyCalls before this step.
EnterIteration(i, cl, att, rc, legacy) ==
  /\ idx' = i
  /\ IF HasNext(i, cl)
     THEN /\ attempted' = Append(att, cl[i])
          /\ races' = Append(rc, NewRace)
          /\ legacyCalls' = legacy
          /\ pc' = "race"
     ELSE /\ attempted' = att
          /\ races' = rc
          /\ legacyCalls' = legacy + 1
          /\ pc' = "ytdlp"

\* The lines after getInnertube has returned session s: the order is computed
\* and the loop entered.
EnterLoop(s, order) ==
  /\ innertube' = s
  /\ clients' = EffectiveClients(order, nodeType(env))
  /\ EnterIteration(1, clients', <<>>, <<>>, 0)

\* The /extract-audio handler calls extractAudio(videoId, poToken, visitorData,
\* clientOrder); it runs to the await in getInnertube, or, the session existing,
\* to the first await of the loop.
Call(vid, order) ==
  /\ UNCHANGED subVars
  /\ pc = "idle"
  /\ videoId' = vid
  /\ clientOrder' = order
  /\ lastError' = NoError
  /\ result' = NoResult
  /\ concluded' = <<>>
  /\ IF innertubeInstance # 0
     THEN EnterLoop(innertubeInstance, order)
     ELSE /\ pc' = "create"
          /\ innertube' = 0
          /\ clients' = <<>>
          /\ idx' = 0
          /\ attempted' = <<>>
          /\ races' = <<>>
          /\ legacyCalls' = 0
  /\ UNCHANGED <<env, innertubeInstance>>

\* Innertube.create fulfils: the session is stored and returned.
CreateOk ==
  /\ UNCHANGED subVars
  /\ pc = "create"
  /\ innertubeInstance' = 1
  /\ EnterLoop(1, clientOrder)
  /\ UNCHANGED <<env, videoId, clientOrder, lastError, result, concluded>>

\* A failed creation is handed to the yt-dlp fallback.
CreateFailureFallsBack == "ytdlp"

\* Where extractAudio goes when getInnertube rejects: the await of line 53 is
\* outside every try block, so the call throws.
CreateFailure == "thrown"

\* Innertube.create rejects: getInnertube and extractAudio reject with it.
CreateFail ==
  /\ UNCHANGED subVars
  /\ pc = "create"
  /\ pc' = CreateFailure
  /\ IF CreateFailure = "thrown"
     THEN result' = Thrown(CreateFailed, videoId) /\ legacyCalls' = legacyCalls
     ELSE result' = result /\ legacyCalls' = legacyCalls + 1
  /\ UNCHANGED <<env, innertubeInstance, videoId, clientOrder, innertube, clients,
                 idx, lastError, races, attempted, concluded>>

\* The persona attempt idx ends in o (e: the error it threw, if it threw); rc is
\* races as this step leaves it.
Conclude(o, e, rc) ==
  /\ concluded' = Append(concluded, o)
  /\ lastError' = LastErrorAfter(o, lastError, e)
  /\ IF LoopContinues(o)
     THEN /\ EnterIteration(idx + 1, clients, attempted, rc, legacyCalls)
          /\ result' = result
     ELSE /\ pc' = "returned"
          /\ result' = Audio(clients[idx], idx, videoId)
          /\ races' = rc
          /\ UNCHANGED <<idx, attempted, legacyCalls>>

\* await Promise.race(...) resumes with the race as settled in rc, and the code
\* runs to the next await: the outer catch block, one of the first two
\* "continue"s, or the call of resolveUrl on the best audio format.
AfterRace(rc) ==
  LET r == rc[idx] IN
    CASE r.settled = "timeout" -> Conclude("timeout", TimedOut(clients[idx], idx), rc)
      [] r.settled = "queryError" -> Conclude("queryError", QueryFailed(clients[idx], idx), rc)
      [] r.settled = "info" /\ r.info = "noFormats" -> Conclude("noFormats", NoError, rc)
      [] r.settled = "info" /\ r.info = "noAudio" -> Conclude("noAudio", NoError, rc)
      [] OTHER -> /\ pc' = "resolveUrl"
                  /\ races' = rc
                  /\ UNCHANGED <<idx, lastError, result, attempted, concluded, legacyCalls>>

\* The getInfo promise of the current attempt settles before the timer fires:
\* fulfilled with info of kind i, or rejected (i = "reject").
QuerySettles(i) ==
  /\ UNCHANGED subVars
  /\ pc = "race"
  /\ races[idx].query = "pending"
  /\ AfterRace([races EXCEPT ![idx] = QuerySettled(@, i)])
  /\ UNCHANGED <<env, innertubeInstance, videoId, clientOrder, innertube, clients>>

\* The timer of the current attempt fires after PER_CLIENT_TIMEOUT_MS, the
\* getInfo promise still pending: the race rejects, getInfo is left running.
TimerFires ==
  /\ UNCHANGED subVars
  /\ pc = "race"
  /\ races[idx].query = "pending"
  /\ AfterRace([races EXCEPT ![idx] = RaceSettle(@, "timeout", "")])
  /\ UNCHANGED <<env, innertubeInstance, videoId, clientOrder, innertube, clients>>

\* The getInfo promise of an attempt that timed out settles at last.
LateQuerySettles(k, i) ==
  /\ UNCHANGED subVars
  /\ k \in 1..Len(races)
  /\ races[k].query = "pending"
  /\ races[k].settled # "pending"
  /\ races' = [races EXCEPT ![k] = QuerySettled(@, i)]
  /\ UNCHANGED <<env, innertubeInstance, pc, videoId, clientOrder, innertube, clients,
                 idx, lastError, result, attempted, concluded, legacyCalls>>

\* resolveUrl returns a URL (url = TRUE) or undefined; it never throws.
ResolveUrlReturns(url) ==
  /\ UNCHANGED subVars
  /\ pc = "resolveUrl"
  /\ IF url
     THEN /\ pc' = "download"
          /\ UNCHANGED <<idx, lastError, races, result, attempted, concluded, legacyCalls>>
     ELSE Conclude("noUrl", NoError, races)
  /\ UNCHANGED <<env, innertubeInstance, videoId, clientOrder, innertube, clients>>

\* downloadAudio returns the bytes (ok = TRUE) or throws.
DownloadSettles(ok) ==
  /\ UNCHANGED subVars
  /\ pc = "download"
  /\ IF ok THEN Conclude("success", NoError, races)
           ELSE Conclude("downloadFailed", DownloadFailed(clients[idx], idx), races)
  /\ UNCHANGED <<env, innertubeInstance, videoId, clientOrder, innertube, clients>>

\* extractWithYtDlp returns its ExtractedAudio.
YtDlpOk ==
  /\ UNCHANGED subVars
  /\ pc = "ytdlp"
  /\ pc' = "returned"
  /\ result' = Audio("yt-dlp", 0, videoId)
  /\ UNCHANGED <<env, innertubeInstance, videoId, clientOrder, innertube, clients,
                 idx, lastError, races, attempted, concluded, legacyCalls>>

\* extractWithYtDlp throws: the error is logged, then line 144 throws.
YtDlpFail ==
  /\ UNCHANGED subVars
  /\ pc = "ytdlp"
  /\ pc' = "thrown"
  /\ result' = Thrown(SurfacedError(lastError, YtDlpFailed), videoId)
  /\ UNCHANGED <<env, innertubeInstance, videoId, clientOrder, innertube, clients,
                 idx, lastError, races, attempted, concluded, legacyCalls>>

\* The /extract-audio handler has awaited extractAudio and responds (200 with
\* the audio, 422 with the error message); the call's frame is gone.  (Promises
\* the call left behind are not followed further.)
Respond ==
  /\ UNCHANGED subVars
  /\ pc \in {"returned", "thrown"}
  /\ pc' = "idle"
  /\ videoId' = ""
  /\ clientOrder' = [given |-> FALSE, list |-> <<>>]
  /\ innertube' = 0
  /\ clients' = <<>>
  /\ idx' = 0
  /\ lastError' = NoError
  /\ races' = <<>>
  /\ result' = NoResult
  /\ attempted' = <<>>
  /\ concluded' = <<>>
  /\ legacyCalls' = 0
  /\ UNCHANGED <<env, innertubeInstance>>

Next ==
  \/ \E vid \in VideoIds, order \in ClientOrders : Call(vid, order)
  \/ CreateOk
  \/ CreateFail
  \/ \E i \in InfoKinds \cup {"reject"} : QuerySettles(i)
  \/ TimerFires
  \/ \E k \in 1..Len(races), i \in InfoKinds \cup {"reject"} : LateQuerySettles(k, i)
  \/ \E url \in BOOLEAN : ResolveUrlReturns(url)
  \/ \E ok \in BOOLEAN : DownloadSettles(ok)
  \/ YtDlpOk
  \/ YtDlpFail
  \/ Respond

Spec == Init /\ [][Next]_vars

\* ------------------------------------------------------------------ extractAudio: format selection
\* A bitrate field that is undefined.
Absent == -1

\* The formats getInfo may list: mime_type, has_audio ("undefined" when the
\* field is not set), bitrate and average_bitrate (Absent when not set).
Formats == {f \in [mime_type : {"audio/webm", "video/mp4"},
                   has_audio : {"undefined", "false"},
                   bitrate : {Absent, 0, 128000, 196000},
                   average_bitrate : {Absent, 160000}] :
              ~(f.mime_type = "video/mp4" /\ f.has_audio = "false")}

\* f.mime_type?.startsWith("audio/") && f.has_audio !== false
IsAudioFormat(f) == f.mime_type = "audio/webm" /\ f.has_audio # "false"

\* The positions of info.streaming_data.adaptive_formats.filter(...), in order.
audioFormats(fs) == SelectSeq([i \in 1..Len(fs) |-> i], LAMBDA i : IsAudioFormat(fs[i]))

\* The average bitrate comes first.
EffectiveBitrateAvgFirst(f) == IF f.average_bitrate # Absent THEN f.average_bitrate
                               ELSE IF f.bitrate # Absent THEN f.bitrate ELSE 0

\* f.bitrate ?? f.average_bitrate ?? 0
EffectiveBitrate(f) == IF f.bitrate # Absent THEN f.bitrate
                       ELSE IF f.average_bitrate # Absent THEN f.average_bitrate ELSE 0

\* A later format of equal bitrate replaces the best one.
ReducerLastWins(fs, best, current) ==
  IF EffectiveBitrate(fs[current]) >= EffectiveBitrate(fs[best]) THEN current ELSE best

\* The reducer: return currentBitrate > bestBitrate ? current : best
Reducer(fs, best, current) ==
  IF EffectiveBitrate(fs[current]) > EffectiveBitrate(fs[best]) THEN current ELSE best

\* audioFormats.reduce(reducer) with no initial value: the first element starts.
RECURSIVE ReduceFrom(_, _, _)
ReduceFrom(fs, best, rest) ==
  IF rest = <<>> THEN best ELSE ReduceFrom(fs, Reducer(fs, best, Head(rest)), Tail(rest))

Reduce(fs, positions) == ReduceFrom(fs, Head(positions), Tail(positions))

\* getInfo has fulfilled with these adaptive formats.
InitFormats ==
  /\ LoopIdle
  /\ YtIdle
  /\ SiIdle
  /\ RuIdle
  /\ DlIdle
  /\ adaptive_formats \in SeqsUpTo(Formats, MaxFormats)
  /\ bestAudio = 0
  /\ fsPc = "query"

\* Lines 82-100: the two "continue"s, or the choice of bestAudio.
SelectFormat ==
  /\ fsPc = "query"
  /\ IF Len(adaptive_formats) = 0
     THEN fsPc' = "noFormats" /\ bestAudio' = 0
     ELSE IF Len(audioFormats(adaptive_formats)) = 0
     THEN fsPc' = "noAudio" /\ bestAudio' = 0
     ELSE /\ fsPc' = "selected"
          /\ bestAudio' = Reduce(adaptive_formats, audioFormats(adaptive_formats))
  /\ UNCHANGED <<env, innertubeInstance, pc, videoId, clientOrder, innertube, clients,
                 idx, lastError, races, result, attempted, concluded, legacyCalls,
                 adaptive_formats, ruVars, dlVars, siVars, ytVars>>

NextFormats == SelectFormat

SpecFormats == InitFormats /\ [][NextFormats]_vars

\* ------------------------------------------------------------------ resolveUrl
\* What a decipher call does: fulfils with a URL, fulfils with "" (or undefined),
\* or throws.
DecipherOutcomes == {"url", "", "throws"}

\* format.decipher: "none" when the format has no decipher function.
\* format.url: "undefined" (null or undefined), "" or a URL.
ResolveFormats == [decipher : DecipherOutcomes \cup {"none"}, url : {"undefined", "", "raw"}]

\* The value an awaited decipher gives the code after it: the URL tagged with
\* the strategy that made it, "" when it yields nothing, and, the try block
\* catching, nothing either when it throws.
DecipherValue(outcome, strategy) == IF outcome = "url" THEN strategy ELSE ""

\* The first strategy is the player's decipher.
FirstStrategyPlayer(pl, f) == IF pl THEN "player" ELSE "raw"

\* The strategy resolveUrl starts with (lines 153 and 162).
FirstStrategy(pl, f) ==
  IF pl /\ f.decipher # "none" THEN "format" ELSE IF pl THEN "player" ELSE "raw"

\* if (url) return url
Truthy(u) == u \notin {"", "undefined"}

\* return format.url ?? undefined
RawUrl(f) == f.url

InitResolve ==
  /\ LoopIdle
  /\ YtIdle
  /\ SiIdle
  /\ FsIdle
  /\ DlIdle
  /\ player \in BOOLEAN
  /\ format \in ResolveFormats
  /\ playerDecipher \in DecipherOutcomes
  /\ ruPc = "called"
  /\ ruTried = <<>>
  /\ audioUrl = "pending"

ruFrame == UNCHANGED <<env, innertubeInstance, pc, videoId, clientOrder, innertube, clients,
                       idx, lastError, races, result, attempted, concluded, legacyCalls,
                       fsVars, dlVars, siVars, ytVars, player, format, playerDecipher>>

\* Strategy st is started: a decipher is called and awaited, or the raw url
\* field is returned.
StartStrategy(st, tried) ==
  IF st = "raw"
  THEN /\ ruPc' = "returned"
       /\ audioUrl' = RawUrl(format)
       /\ ruTried' = Append(tried, "raw")
  ELSE /\ ruPc' = st
       /\ audioUrl' = audioUrl
       /\ ruTried' = Append(tried, st)

\* resolveUrl(innertube, format) runs to its first await or to its return.
ResolveUrlCalled ==
  /\ ruPc = "called"
  /\ StartStrategy(FirstStrategy(player, format), ruTried)
  /\ ruFrame

\* await format.decipher(player) settles (lines 155-159).
FormatDecipherSettles ==
  /\ ruPc = "format"
  /\ LET url == DecipherValue(format.decipher, "format") IN
       IF Truthy(url)
       THEN ruPc' = "returned" /\ audioUrl' = url /\ ruTried' = ruTried
       ELSE StartStrategy(IF player THEN "player" ELSE "raw", ruTried)
  /\ ruFrame

\* await player.decipher(...) settles (lines 165-173).
PlayerDecipherSettles ==
  /\ ruPc = "player"
  /\ LET url == DecipherValue(playerDecipher, "player") IN
       IF Truthy(url)
       THEN ruPc' = "returned" /\ audioUrl' = url /\ ruTried' = ruTried
       ELSE StartStrategy("raw", ruTried)
  /\ ruFrame

NextResolve == ResolveUrlCalled \/ FormatDecipherSettles \/ PlayerDecipherSettles

SpecResolve == InitResolve /\ [][NextResolve]_vars

\* ------------------------------------------------------------------ downloadAudio, downloadChunked
\* const CHUNK_SIZE = 524287: the inclusive end byte of the first window.
CHUNK_SIZE == 524287

\* const MAX_FULL_GET_SIZE = 50 * 1024 * 1024
MAX_FULL_GET_SIZE == 50 * 1024 * 1024

\* Sizes of the resource behind the URL: below one window, exactly one window,
\* one byte more, exactly two windows, and a little over two windows.
ResourceSizes == {1000, CHUNK_SIZE + 1, CHUNK_SIZE + 2, 2 * (CHUNK_SIZE + 1), 1200000}

\* A header carrying a number: absent, present but not of the expected form,
\* or present with number n.
HeaderValues(ns) ==
  {[kind |-> "absent", n |-> 0], [kind |-> "garbled", n |-> 0]}
    \cup [kind : {"num"}, n : ns]

\* What the server can answer to the full GET: any status; any content-length,
\* truthful or not; a body that is empty, the resource, or larger than the cap.
FullResponses ==
  [status : {200, 403},
   header : HeaderValues({0, resource, MAX_FULL_GET_SIZE, MAX_FULL_GET_SIZE + 1}),
   readable : BOOLEAN,
   len : {0, resource, MAX_FULL_GET_SIZE + 1}]

Min(a, b) == IF a < b THEN a ELSE b

\* What the server can answer to the range request [from, to]: 206 with the
\* bytes asked for, 200 with the whole resource, fewer bytes, no bytes, or an
\* error status; a content-range total that is right, zero, or unusable.
RangeResponses(from, to) ==
  [status : {200, 206, 403},
   header : HeaderValues({0, resource}),
   readable : BOOLEAN,
   len : {0, 1000, Min(to, resource - 1) - from + 1, resource}]

\* resp.ok
Ok(status) == status \in 200..299

\* Every status is taken as good.
GoodStatusAlways(status) == TRUE

\* !(!resp.ok && resp.status !== 206)
GoodStatus(status) == Ok(status) \/ status = 206

\* The cap check includes the cap itself.
ExceedsCapInclusive(header) == header.kind = "num" /\ header.n >= MAX_FULL_GET_SIZE

\* The cap check never fires.
ExceedsCapNever(header) == FALSE

\* parseInt(resp.headers.get("content-length") || "0", 10) > MAX_FULL_GET_SIZE:
\* an absent header parses as 0, an unusable one as NaN, which exceeds nothing.
ExceedsCap(header) == header.kind = "num" /\ header.n > MAX_FULL_GET_SIZE

\* An unusable content-range is taken to report the largest size allowed.
TotalSizeAssumed(header) == IF header.kind = "num" THEN header.n ELSE MAX_FULL_GET_SIZE

\* totalSize from content-range: the number after the slash, 0 when the header
\* is missing or does not match /bytes \d+-\d+\/(\d+)/.
TotalSize(header) == IF header.kind = "num" THEN header.n ELSE 0

\* totalSize === 0 || firstChunk.byteLength >= totalSize
SingleChunk(total, firstLen) == total = 0 \/ firstLen >= total

\* The end is not held below the total.
ChunkEndUnclamped(s, total) == s + CHUNK_SIZE

\* The loop does not advance.
NextStartStuck(s) == s

\* The loop advances by the window less one byte.
NextStartOverlapping(s) == s + CHUNK_SIZE

\* start += CHUNK_SIZE + 1
NextStart(s) == s + CHUNK_SIZE + 1

\* end = Math.min(start + CHUNK_SIZE, totalSize - 1)
ChunkEnd(s, total) == Min(s + CHUNK_SIZE, total - 1)

\* A network error of the full GET is thrown to the caller.
FullGetFailureRejectThrows(kind) == IF kind = "rejected" THEN "thrown" ELSE "chunked"

\* Where downloadAudio goes after a full GET that gave no payload: the fetch
\* rejected, the status was not OK, the declared length was over the cap, the
\* body could not be read, or the body was empty.
FullGetFailure(kind) == "chunked"

\* Buffer.concat(chunks): the pieces in the order of the list.
Concat(cs) == cs

RECURSIVE ByteLength(_)
\* data.byteLength
ByteLength(cs) == IF cs = <<>> THEN 0 ELSE Head(cs).len + ByteLength(Tail(cs))

InitDownload ==
  /\ LoopIdle
  /\ YtIdle
  /\ SiIdle
  /\ FsIdle
  /\ RuIdle
  /\ resource \in ResourceSizes
  /\ dlPc = "called"
  /\ dlRequests = <<>>
  /\ fullResp = NoResponse
  /\ fullOutcome = "none"
  /\ fullBody = "none"
  /\ resp = NoResponse
  /\ totalSize = 0
  /\ start = 0
  /\ chunks = <<>>
  /\ bodiesRead = 0
  /\ dlResult = <<>>
  /\ dlError = ""

dlFrame == UNCHANGED <<env, innertubeInstance, pc, videoId, clientOrder, innertube, clients,
                       idx, lastError, races, result, attempted, concluded, legacyCalls,
                       fsVars, ruVars, siVars, ytVars, resource>>

\* Nothing of the chunked phase changes.
chunkedUnchanged == UNCHANGED <<resp, totalSize, start, chunks, bodiesRead>>

\* Nothing of the full GET phase changes.
fullUnchanged == UNCHANGED <<fullResp, fullOutcome, fullBody>>

\* fetch(url, {headers: {..., Range: `bytes=${from}-${to}`}}) is called.
RangeRequest(from, to) == [kind |-> "range", from |-> from, to |-> to]

\* downloadChunked throws.
Throw(msg) ==
  /\ dlPc' = "thrown"
  /\ dlError' = msg
  /\ UNCHANGED <<dlRequests, dlResult>>

\* downloadAudio or downloadChunked returns data.
Return(data) ==
  /\ dlPc' = "returned"
  /\ dlResult' = data
  /\ UNCHANGED <<dlRequests, dlError>>

\* The full GET gave no payload.
FullGetFailed(kind) ==
  /\ fullOutcome' = kind
  /\ IF FullGetFailure(kind) = "chunked"
     THEN \* return downloadChunked(url, headers, videoId): up to its first await
          /\ dlPc' = "firstFetch"
          /\ dlRequests' = Append(dlRequests, RangeRequest(0, CHUNK_SIZE))
          /\ UNCHANGED <<dlResult, dlError>>
     ELSE Throw("full GET failed")

\* downloadAudio(url, videoId) runs to its first await: the full GET is sent.
DownloadCalled ==
  /\ dlPc = "called"
  /\ dlPc' = "fullGet"
  /\ dlRequests' = Append(dlRequests, [kind |-> "full", from |-> 0, to |-> 0])
  /\ UNCHANGED <<dlResult, dlError>>
  /\ fullUnchanged
  /\ chunkedUnchanged
  /\ dlFrame

\* await fetch(url, {headers}) rejects: caught, logged (lines 209-212).
FullGetRejects ==
  /\ dlPc = "fullGet"
  /\ FullGetFailed("rejected")
  /\ UNCHANGED <<fullResp, fullBody>>
  /\ chunkedUnchanged
  /\ dlFrame

\* await fetch(url, {headers}) fulfils with response r (lines 193-208).
FullGetResponds(r) ==
  /\ dlPc = "fullGet"
  /\ fullResp' = r
  /\ IF ~Ok(r.status)
     THEN FullGetFailed("notOk") /\ fullBody' = fullBody
     ELSE IF ExceedsCap(r.header)
     THEN FullGetFailed("tooLarge") /\ fullBody' = "cancelled"
     ELSE /\ dlPc' = "fullBody"
          /\ UNCHANGED <<fullOutcome, fullBody, dlRequests, dlResult, dlError>>
  /\ chunkedUnchanged
  /\ dlFrame

\* await resp.arrayBuffer() settles (lines 200-205 and the catch).
FullBodySettles ==
  /\ dlPc = "fullBody"
  /\ UNCHANGED fullResp
  /\ IF ~fullResp.readable
     THEN FullGetFailed("readFailed") /\ fullBody' = "failed"
     ELSE /\ fullBody' = "read"
          /\ IF fullResp.len > 0
             THEN /\ Return(<<[kind |-> "full", from |-> 0, len |-> fullResp.len]>>)
                  /\ fullOutcome' = "returned"
             ELSE FullGetFailed("empty")
  /\ chunkedUnchanged
  /\ dlFrame

\* await fetch(...) of a range request rejects: nothing catches it.
RangeFetchRejects ==
  /\ dlPc \in {"firstFetch", "chunkFetch"}
  /\ Throw("fetch failed")
  /\ chunkedUnchanged
  /\ fullUnchanged
  /\ dlFrame

\* The first range request is answered with r (lines 224-230).
FirstResponds(r) ==
  /\ dlPc = "firstFetch"
  /\ resp' = r
  /\ IF ~GoodStatus(r.status)
     THEN Throw("Audio download failed: HTTP")
     ELSE dlPc' = "firstBody" /\ UNCHANGED <<dlRequests, dlResult, dlError>>
  /\ UNCHANGED <<totalSize, start, chunks, bodiesRead>>
  /\ fullUnchanged
  /\ dlFrame

\* The loop of lines 250-263 from its test to the next await, or past its end
\* to the return, with start = s and chunks = cs.
LoopFrom(s, cs) ==
  /\ start' = s
  /\ chunks' = cs
  /\ IF s < totalSize'
     THEN /\ dlPc' = "chunkFetch"
          /\ dlRequests' = Append(dlRequests, RangeRequest(s, ChunkEnd(s, totalSize')))
          /\ UNCHANGED <<dlResult, dlError>>
     ELSE Return(Concat(cs))

\* await firstResponse.arrayBuffer() settles (lines 232-250).
FirstBodySettles ==
  /\ dlPc = "firstBody"
  /\ UNCHANGED resp
  /\ IF ~resp.readable
     THEN Throw("body read failed") /\ UNCHANGED <<totalSize, start, chunks, bodiesRead>>
     ELSE /\ bodiesRead' = bodiesRead + 1
          /\ IF resp.len = 0
             THEN /\ Throw("Audio download returned empty response")
                  /\ UNCHANGED <<totalSize, start, chunks>>
             ELSE LET firstChunk == [kind |-> "range", from |-> 0, len |-> resp.len] IN
                  /\ totalSize' = TotalSize(resp.header)
                  /\ IF SingleChunk(totalSize', resp.len)
                     THEN Return(<<firstChunk>>) /\ UNCHANGED <<start, chunks>>
                     ELSE LoopFrom(resp.len, <<firstChunk>>)
  /\ fullUnchanged
  /\ dlFrame

\* A later range request is answered with r (lines 252-257).
ChunkResponds(r) ==
  /\ dlPc = "chunkFetch"
  /\ resp' = r
  /\ IF ~GoodStatus(r.status)
     THEN Throw("Chunk download failed: HTTP")
     ELSE dlPc' = "chunkBody" /\ UNCHANGED <<dlRequests, dlResult, dlError>>
  /\ UNCHANGED <<totalSize, start, chunks, bodiesRead>>
  /\ fullUnchanged
  /\ dlFrame

\* await resp.arrayBuffer() of a later chunk settles (lines 258-263).
ChunkBodySettles ==
  /\ dlPc = "chunkBody"
  /\ UNCHANGED <<resp, totalSize>>
  /\ IF ~resp.readable
     THEN Throw("body read failed") /\ UNCHANGED <<start, chunks, bodiesRead>>
     ELSE /\ bodiesRead' = bodiesRead + 1
          /\ LoopFrom(NextStart(start),
                      Append(chunks, [kind |-> "range", from |-> start, len |-> resp.len]))
  /\ fullUnchanged
  /\ dlFrame

NextDownload ==
  \/ DownloadCalled
  \/ FullGetRejects
  \/ \E r \in FullResponses : FullGetResponds(r)
  \/ FullBodySettles
  \/ RangeFetchRejects
  \/ \E r \in RangeResponses(0, CHUNK_SIZE) : FirstResponds(r)
  \/ FirstBodySettles
  \/ \E r \in RangeResponses(start, ChunkEnd(start, totalSize)) : ChunkResponds(r)
  \/ ChunkBodySettles

SpecDownload == InitDownload /\ [][NextDownload]_vars

\* ------------------------------------------------------------------ getInnertube
\* Every call creates, whatever innertubeInstance holds.
MustCreateAlways(inst) == TRUE

\* if (innertubeInstance) return innertubeInstance; fails: a creation is needed.
MustCreate(inst) == inst = 0

\* The first session stored stays.
InstanceAfterFulfilFirstWins(inst, created) == IF inst # 0 THEN inst ELSE created

\* innertubeInstance = await Innertube.create(...): what the variable holds
\* once creation `created` has fulfilled.
InstanceAfterFulfil(inst, created) == created

\* The failed creation is stored.
InstanceAfterRejectCached(inst, created) == created

\* The await throws before the assignment: what the variable holds once
\* creation `created` has rejected.
InstanceAfterReject(inst, created) == inst

InitSession ==
  /\ LoopIdle
  /\ YtIdle
  /\ FsIdle
  /\ RuIdle
  /\ DlIdle
  /\ SiIdle

siFrame == UNCHANGED <<env, pc, videoId, clientOrder, innertube, clients,
                       idx, lastError, races, result, attempted, concluded, legacyCalls,
                       fsVars, ruVars, dlVars, ytVars>>

\* Caller c's extractAudio reaches line 53: getInnertube runs to its return or
\* to its await.  Each Innertube.create makes a new session, named by the
\* number of the creation.
GetInnertubeCalled(c) ==
  /\ getCalls[c].pc = "idle"
  /\ IF MustCreate(innertubeInstance)
     THEN /\ creations < MaxCreations
          /\ creations' = creations + 1
          /\ getCalls' = [getCalls EXCEPT ![c] =
               [pc |-> "creating", creation |-> creations + 1, session |-> 0, cached |-> FALSE]]
     ELSE /\ creations' = creations
          /\ getCalls' = [getCalls EXCEPT ![c] =
               [pc |-> "returned", creation |-> 0, session |-> innertubeInstance, cached |-> TRUE]]
  /\ UNCHANGED <<innertubeInstance, settleOrder>>
  /\ siFrame

\* The Innertube.create awaited by c fulfils: lines 31 and 35.
CreateFulfils(c) ==
  /\ getCalls[c].pc = "creating"
  /\ innertubeInstance' = InstanceAfterFulfil(innertubeInstance, getCalls[c].creation)
  /\ getCalls' = [getCalls EXCEPT ![c].pc = "returned", ![c].session = innertubeInstance']
  /\ settleOrder' = Append(settleOrder, [creation |-> getCalls[c].creation, ok |-> TRUE])
  /\ UNCHANGED creations
  /\ siFrame

\* The Innertube.create awaited by c rejects: getInnertube rejects with it.
CreateRejects(c) ==
  /\ getCalls[c].pc = "creating"
  /\ innertubeInstance' = InstanceAfterReject(innertubeInstance, getCalls[c].creation)
  /\ getCalls' = [getCalls EXCEPT ![c].pc = "thrown"]
  /\ settleOrder' = Append(settleOrder, [creation |-> getCalls[c].creation, ok |-> FALSE])
  /\ UNCHANGED creations
  /\ siFrame

\* Caller c's extractAudio call is over; c may call again.
CallOver(c) ==
  /\ getCalls[c].pc \in {"returned", "thrown"}
  /\ getCalls' = [getCalls EXCEPT ![c] = NoGetCall]
  /\ UNCHANGED <<innertubeInstance, creations, settleOrder>>
  /\ siFrame

NextSession ==
  \/ \E c \in Callers : GetInnertubeCalled(c)
  \/ \E c \in Callers : CreateFulfils(c)
  \/ \E c \in Callers : CreateRejects(c)
  \/ \E c \in Callers : CallOver(c)

SpecSession == InitSession /\ [][NextSession]_vars

\* ------------------------------------------------------------------ extractWithYtDlp
\* The name of file f: yt-<video>-<stamp>.<ext>.
NameOf(f) == [video |-> f.video, stamp |-> f.stamp]

\* outPath + ".%(ext)s": the name yt-dlp writes for the call.
OutName(call) == [video |-> call.video, stamp |-> call.stamp]

\* f.startsWith(prefix) with prefix = `yt-${videoId}-`.
StartsWithPrefix(name, call) == name.video = call.video

\* (await readdir(dir)).filter(f => f.startsWith(prefix))
FilesWithPrefix(call) == {f \in tmpFiles : StartsWithPrefix(NameOf(f), call)}

\* tmpdir after the file named n is unlinked.
Unlinked(files, n) == {f \in files : NameOf(f) # n}

\* tmpdir after f is written under its name.
Written(files, f) == Unlinked(files, NameOf(f)) \cup {f}

InitYtDlp ==
  /\ LoopIdle
  /\ FsIdle
  /\ RuIdle
  /\ DlIdle
  /\ SiIdle
  /\ YtIdle

ytFrame == UNCHANGED <<env, innertubeInstance, pc, videoId, clientOrder, innertube, clients,
                       idx, lastError, races, result, attempted, concluded, legacyCalls,
                       fsVars, ruVars, dlVars, siVars>>

\* The clock moves on.
Tick ==
  /\ now < MaxClock
  /\ now' = now + 1
  /\ UNCHANGED <<tmpFiles, ytCalls>>
  /\ ytFrame

\* extractWithYtDlp(vid) runs to its first await: outPath takes Date.now() and
\* yt-dlp --dump-json is started (lines 267-276).
YtDlpCalled(i, vid) ==
  /\ ytCalls[i].pc = "idle"
  /\ ytCalls' = [ytCalls EXCEPT ![i] = [NoYtCall EXCEPT !.pc = "meta", !.video = vid, !.stamp = now]]
  /\ UNCHANGED <<now, tmpFiles>>
  /\ ytFrame

\* The catch block of line 319 is entered with error err and runs to its
\* await of readdir.
Caught(i, err) == [ytCalls EXCEPT ![i].pc = "cleanup", ![i].error = err]

\* yt-dlp --dump-json settles; JSON.parse may throw (lines 272-287).
MetaSettles(i, ok) ==
  /\ ytCalls[i].pc = "meta"
  /\ ytCalls' = IF ok THEN [ytCalls EXCEPT ![i].pc = "download"] ELSE Caught(i, "metadata failed")
  /\ UNCHANGED <<now, tmpFiles>>
  /\ ytFrame

\* The yt-dlp download process creates its output file (--no-part: under its
\* final name at once).
OutputFileAppears(i) ==
  /\ ytCalls[i].pc = "download"
  /\ ytCalls' = [ytCalls EXCEPT ![i].pc = "downloading"]
  /\ tmpFiles' = Written(tmpFiles, [video |-> ytCalls[i].video, stamp |-> ytCalls[i].stamp,
                                   producer |-> i, complete |-> FALSE])
  /\ UNCHANGED now
  /\ ytFrame

\* The yt-dlp download process exits (lines 281-293): with success the file it
\* was writing, if still there, is complete and readdir is awaited; with
\* failure or timeout the catch block is entered.
YtDlpExits(i, ok) ==
  /\ ytCalls[i].pc \in {"download", "downloading"}
  /\ IF ok
     THEN /\ ytCalls' = [ytCalls EXCEPT ![i].pc = "readdir"]
          /\ tmpFiles' = {IF f.producer = i /\ NameOf(f) = OutName(ytCalls[i])
                          THEN [f EXCEPT !.complete = TRUE] ELSE f : f \in tmpFiles}
     ELSE /\ ytCalls' = Caught(i, "download failed")
          /\ tmpFiles' = tmpFiles
  /\ UNCHANGED now
  /\ ytFrame

\* await readdir(dir) rejects.
ReaddirRejects(i) ==
  /\ ytCalls[i].pc = "readdir"
  /\ ytCalls' = Caught(i, "readdir failed")
  /\ UNCHANGED <<now, tmpFiles>>
  /\ ytFrame

\* await readdir(dir) fulfils (lines 293-298): no file with the prefix throws;
\* otherwise the last of them, in the order readdir happened to list them, is
\* outputFile, and readFile is started on it.
ReaddirSettles(i, f) ==
  /\ ytCalls[i].pc = "readdir"
  /\ IF FilesWithPrefix(ytCalls[i]) = {}
     THEN /\ f = NoFile
          /\ ytCalls' = Caught(i, "yt-dlp produced no output file")
     ELSE /\ f \in FilesWithPrefix(ytCalls[i])
          /\ ytCalls' = [ytCalls EXCEPT ![i].pc = "read", ![i].outputFile = NameOf(f)]
  /\ UNCHANGED <<now, tmpFiles>>
  /\ ytFrame

\* await readFile(outputFile) settles (line 298).
ReadFileSettles(i, ok) ==
  /\ ytCalls[i].pc = "read"
  /\ LET there == {f \in tmpFiles : NameOf(f) = ytCalls[i].outputFile} IN
       IF ok /\ there # {}
       THEN ytCalls' = [ytCalls EXCEPT ![i].pc = "unlink", ![i].data = CHOOSE f \in there : TRUE]
       ELSE ytCalls' = Caught(i, "readFile failed")
  /\ UNCHANGED <<now, tmpFiles>>
  /\ ytFrame

\* The invocation, unlinking the file named n, takes it from under the
\* invocation that wrote it and has not finished with it.
TakenFrom(i, n) ==
  LET there == {f \in tmpFiles : NameOf(f) = n /\ f.producer # i
                                 /\ ytCalls[f.producer].pc \in {"downloading", "readdir", "read"}
                                 /\ OutName(ytCalls[f.producer]) = n}
  IN  IF there = {} THEN ytCalls[i].tookFrom ELSE (CHOOSE f \in there : TRUE).producer

\* await unlink(outputFile).catch(() => {}) settles and the result is returned
\* (lines 299-318).
UnlinkSettles(i, ok) ==
  /\ ytCalls[i].pc = "unlink"
  /\ tmpFiles' = IF ok THEN Unlinked(tmpFiles, ytCalls[i].outputFile) ELSE tmpFiles
  /\ ytCalls' = [ytCalls EXCEPT ![i].pc = "returned",
                                ![i].cleanupFailed = ~ok,
                                ![i].tookFrom = IF ok THEN TakenFrom(i, ytCalls[i].outputFile)
                                                ELSE ytCalls[i].tookFrom]
  /\ UNCHANGED now
  /\ ytFrame

\* await rd(dir) of the catch block settles (lines 321-328): the names with the
\* prefix are to be unlinked one by one; with none, or with readdir rejecting,
\* the original error is thrown.
CleanupReaddirSettles(i, ok) ==
  /\ ytCalls[i].pc = "cleanup"
  /\ LET names == {NameOf(f) : f \in FilesWithPrefix(ytCalls[i])} IN
       ytCalls' = IF ok /\ names # {}
                  THEN [ytCalls EXCEPT ![i].pc = "cleaning", ![i].pending = names]
                  ELSE [ytCalls EXCEPT ![i].pc = "thrown", ![i].cleanupFailed = ~ok]
  /\ UNCHANGED <<now, tmpFiles>>
  /\ ytFrame

\* await unlink(join(dir, f)).catch(() => {}) of the catch block settles for
\* one name n of the list; after the last the original error is thrown.
CleanupUnlinkSettles(i, n, ok) ==
  /\ ytCalls[i].pc = "cleaning"
  /\ n \in ytCalls[i].pending
  /\ tmpFiles' = IF ok THEN Unlinked(tmpFiles, n) ELSE tmpFiles
  /\ ytCalls' = [ytCalls EXCEPT
       ![i].pending = @ \ {n},
       ![i].pc = IF ytCalls[i].pending = {n} THEN "thrown" ELSE "cleaning",
       ![i].cleanupFailed = @ \/ (~ok /\ \E f \in tmpFiles : NameOf(f) = n),
       ![i].tookFrom = IF ok THEN TakenFrom(i, n) ELSE @]
  /\ UNCHANGED now
  /\ ytFrame

NextYtDlp ==
  \/ Tick
  \/ \E i \in Invocations, vid \in VideoIds : YtDlpCalled(i, vid)
  \/ \E i \in Invocations, ok \in BOOLEAN : MetaSettles(i, ok)
  \/ \E i \in Invocations : OutputFileAppears(i)
  \/ \E i \in Invocations, ok \in BOOLEAN : YtDlpExits(i, ok)
  \/ \E i \in Invocations : ReaddirRejects(i)
  \/ \E i \in Invocations, f \in tmpFiles \cup {NoFile} : ReaddirSettles(i, f)
  \/ \E i \in Invocations, ok \in BOOLEAN : ReadFileSettles(i, ok)
  \/ \E i \in Invocations, ok \in BOOLEAN : UnlinkSettles(i, ok)
  \/ \E i \in Invocations, ok \in BOOLEAN : CleanupReaddirSettles(i, ok)
  \/ \E i \in Invocations :
        \E n \in ytCalls[i].pending, ok \in BOOLEAN : CleanupUnlinkSettles(i, n, ok)

SpecYtDlp == InitYtDlp /\ [][NextYtDlp]_vars

\* ------------------------------------------------------------------ termination
\* The argument lists of the calls followed to their end: none (the default
\* order, three personas), and lists of at most one name.
LiveOrders == {o \in ClientOrders : Len(o.list) <= 1}

LiveCall == \E vid \in VideoIds, order \in LiveOrders : Call(vid, order)

\* downloadChunked has just sent its first range request, the full GET having
\* been rejected.
InitChunked ==
  /\ LoopIdle
  /\ FsIdle
  /\ RuIdle
  /\ SiIdle
  /\ YtIdle
  /\ resource \in ResourceSizes
  /\ dlPc = "firstFetch"
  /\ dlRequests = <<[kind |-> "full", from |-> 0, to |-> 0], RangeRequest(0, CHUNK_SIZE)>>
  /\ fullResp = NoResponse
  /\ fullOutcome = "rejected"
  /\ fullBody = "none"
  /\ resp = NoResponse
  /\ totalSize = 0
  /\ start = 0
  /\ chunks = <<>>
  /\ bodiesRead = 0
  /\ dlResult = <<>>
  /\ dlError = ""

\* Either extractAudio calls are followed through the persona loop, or one
\* downloadChunked call is followed through the chunk loop.
InitLive == Init \/ InitChunked

\* The steps of extractAudio.
LoopSteps ==
  \/ LiveCall
  \/ CreateOk
  \/ CreateFail
  \/ \E i \in InfoKinds \cup {"reject"} : QuerySettles(i)
  \/ TimerFires
  \/ \E k \in 1..Len(races), i \in InfoKinds \cup {"reject"} : LateQuerySettles(k, i)
  \/ \E url \in BOOLEAN : ResolveUrlReturns(url)
  \/ \E ok \in BOOLEAN : DownloadSettles(ok)
  \/ YtDlpOk
  \/ YtDlpFail
  \/ Respond

\* The steps of downloadChunked.
ChunkedSteps ==
  \/ RangeFetchRejects
  \/ \E r \in RangeResponses(0, CHUNK_SIZE) : FirstResponds(r)
  \/ FirstBodySettles
  \/ \E r \in RangeResponses(start, ChunkEnd(start, totalSize)) : ChunkResponds(r)
  \/ ChunkBodySettles

NextLive == (dlPc = "idle" /\ LoopSteps) \/ ChunkedSteps

\* Every external call settles: a pending session creation, a pending race of
\* query and timer, a pending resolveUrl, download or yt-dlp fallback of the
\* loop, a pending range fetch and a pending body read of the downloader.
\* Nothing obliges a caller to call, or a query that lost its race to settle.
Fairness ==
  /\ WF_vars(CreateOk \/ CreateFail)
  /\ WF_vars((\E i \in InfoKinds \cup {"reject"} : QuerySettles(i)) \/ TimerFires)
  /\ WF_vars(\E url \in BOOLEAN : ResolveUrlReturns(url))
  /\ WF_vars(\E ok \in BOOLEAN : DownloadSettles(ok))
  /\ WF_vars(YtDlpOk \/ YtDlpFail)
  /\ WF_vars(FirstBodySettles \/ ChunkBodySettles)
  /\ WF_vars(RangeFetchRejects
             \/ (\E r \in RangeResponses(0, CHUNK_SIZE) : FirstResponds(r))
             \/ (\E r \in RangeResponses(start, ChunkEnd(start, totalSize)) : ChunkResponds(r)))

SpecLive == InitLive /\ [][NextLive]_vars /\ Fairness

\* ------------------------------------------------------------------ properties
IsPrefix(a, b) == Len(a) <= Len(b) /\ \A i \in 1..Len(a) : a[i] = b[i]

\* The call has passed "await getInnertube()": the order exists.
SessionObtained == innertube # 0

\* The caller supplied a non-empty list.
Supplied == clientOrder.given /\ Len(clientOrder.list) > 0

AllUnrecognized == \A i \in 1..Len(clientOrder.list) :
                     clientOrder.list[i] \notin {"WEB", "ANDROID", "TV_EMBEDDED"}

EveryPersonaFailed == /\ Len(concluded) = Len(clients)
                      /\ \A k \in 1..Len(concluded) : concluded[k] # "success"

\* The order the spec gives for this node: A,B,C residential, B,C,A otherwise.
ExpectedDefault == IF nodeType(env) = "residential"
                   THEN <<"WEB", "ANDROID", "TV_EMBEDDED">>
                   ELSE <<"ANDROID", "TV_EMBEDDED", "WEB">>

RECURSIVE RecognizedSubseq(_)
RecognizedSubseq(l) ==
  IF l = <<>> THEN <<>>
  ELSE (IF Head(l) \in {"WEB", "ANDROID", "TV_EMBEDDED"} THEN <<Head(l)>> ELSE <<>>)
       \o RecognizedSubseq(Tail(l))

\* The attempts that ended by throwing, and the error each threw.
ThrowKinds == {"queryError", "timeout", "downloadFailed"}
ThrownAt(n) == {k \in 1..n : k <= Len(concluded) /\ concluded[k] \in ThrowKinds}
ErrorOf(k) == CASE concluded[k] = "timeout" -> TimedOut(attempted[k], k)
                [] concluded[k] = "queryError" -> QueryFailed(attempted[k], k)
                [] concluded[k] = "downloadFailed" -> DownloadFailed(attempted[k], k)
                [] OTHER -> NoError
MaxOf(S) == CHOOSE m \in S : \A x \in S : x <= m
LastThrownUpTo(n) == IF ThrownAt(n) = {} THEN NoError ELSE ErrorOf(MaxOf(ThrownAt(n)))

\* The call failed after its yt-dlp fallback failed.
LegacyFailed == pc = "thrown" /\ legacyCalls = 1

\* C1: within one call the Legacy Extractor (extractWithYtDlp) is invoked at most
\* once; it has been invoked exactly once as soon as every persona of the
\* effective order has been attempted and has failed (at once when the order is
\* empty); when it is invoked every persona of the order has been attempted, in
\* order, and has failed; it is never invoked when a persona's download succeeded.
C1_LegacyOnceAfterAllFailed ==
  /\ legacyCalls \in {0, 1}
  /\ (SessionObtained /\ EveryPersonaFailed) => legacyCalls = 1
  /\ legacyCalls = 1 => (attempted = clients /\ EveryPersonaFailed)
  /\ (\E k \in 1..Len(concluded) : concluded[k] = "success") => legacyCalls = 0

C1_Witness == pc = "ytdlp" /\ legacyCalls = 1 /\ Len(concluded) = 3 /\ concluded[2] = "noUrl"

\* C2 (as claimed): when every persona fails and yt-dlp fails too, the surfaced
\* error is the error of the most recent persona failure, whatever its kind
\* (timeout, empty catalog, no audio formats, unresolvable URL, download failure).
C2_Original ==
  (LegacyFailed /\ Len(concluded) > 0) =>
     /\ result.error.attempt = Len(concluded)
     /\ result.error # YtDlpFailed

\* C2 (amended): when every persona fails and yt-dlp fails too, and some persona
\* attempt threw (query rejection, timeout, download failure), the surfaced
\* error is the error of the most recent attempt that threw, never yt-dlp's
\* error; attempts skipped for an empty catalog, no audio format or no URL leave
\* no error behind.
C2_SurfacesLastThrownPersonaError ==
  (LegacyFailed /\ ThrownAt(Len(concluded)) # {}) =>
     /\ result.kind = "error"
     /\ result.error = LastThrownUpTo(Len(concluded))
     /\ result.error # YtDlpFailed

C2_Witness ==
  /\ LegacyFailed
  /\ Len(concluded) = 2 /\ concluded[1] = "timeout" /\ concluded[2] = "noAudio"
  /\ result.error = TimedOut(attempted[1], 1)

\* C3 (as claimed): when yt-dlp fails and no persona-level error exists, the
\* surfaced error is yt-dlp's error.
C3_Original ==
  (LegacyFailed /\ ThrownAt(Len(concluded)) = {}) => result.error = YtDlpFailed

\* C3 (amended): when yt-dlp fails and no persona attempt threw (no persona was
\* attempted, or every one was skipped without throwing), the surfaced error is
\* the fixed error "No client returned playable streaming data"; yt-dlp's error
\* is logged and not surfaced.
C3_SurfacesNoPlayableData ==
  (LegacyFailed /\ ThrownAt(Len(concluded)) = {}) =>
     /\ result.kind = "error"
     /\ result.error = NoPlayableData
     /\ result.error # YtDlpFailed

C3_Witness ==
  /\ LegacyFailed /\ result.error = NoPlayableData
  /\ Len(concluded) = 2 /\ concluded[1] = "noFormats" /\ concluded[2] = "noUrl"

\* C4: with no persona list supplied (undefined or empty) the personas are
\* attempted in the order WEB, ANDROID, TV_EMBEDDED on a node of type
\* "residential" and ANDROID, TV_EMBEDDED, WEB on a node of any other type,
\* whatever the video id: the order is that list, the attempts made so far are
\* its beginning, and all of it once the loop is exhausted.
C4_DefaultOrder ==
  (SessionObtained /\ ~Supplied) =>
     /\ clients = ExpectedDefault
     /\ IsPrefix(attempted, ExpectedDefault)
     /\ legacyCalls = 1 => attempted = ExpectedDefault

C4_Witness ==
  /\ ~Supplied /\ env.NODE_TYPE = "datacenter" /\ videoId = "v2"
  /\ pc = "ytdlp" /\ attempted = <<"ANDROID", "TV_EMBEDDED", "WEB">>

\* C5: for a non-empty supplied list the personas attempted are, in order, the
\* recognized names of the list (unrecognized entries dropped, relative order
\* and repetitions kept): the attempts made so far are the beginning of that
\* subsequence, and all of it once the loop is exhausted; no persona outside the
\* supplied list is attempted.
C5_SuppliedOrderFiltered ==
  (SessionObtained /\ Supplied) =>
     /\ clients = RecognizedSubseq(clientOrder.list)
     /\ IsPrefix(attempted, RecognizedSubseq(clientOrder.list))
     /\ legacyCalls = 1 => attempted = RecognizedSubseq(clientOrder.list)
     /\ \A k \in 1..Len(attempted) :
          \E i \in 1..Len(clientOrder.list) : clientOrder.list[i] = attempted[k]

C5_Witness ==
  /\ clientOrder.given /\ clientOrder.list = <<"X", "ANDROID">>
  /\ pc = "ytdlp" /\ attempted = <<"ANDROID">>

\* C6: with a non-empty supplied list of unrecognized names only, no persona is
\* attempted (the default order is not derived) and extractWithYtDlp is invoked
\* exactly once.
C6_AllUnrecognizedGoesToLegacy ==
  (SessionObtained /\ Supplied /\ AllUnrecognized) =>
     /\ clients = <<>>
     /\ attempted = <<>>
     /\ legacyCalls = 1

C6_Witness ==
  /\ Supplied /\ AllUnrecognized /\ Len(clientOrder.list) = 2
  /\ pc = "returned" /\ result.source = "yt-dlp" /\ attempted = <<>> /\ legacyCalls = 1

\* C7 (as claimed): a supplied list that filtering leaves empty gets the default
\* order of the node type, as when nothing is supplied.
C7_Original ==
  (SessionObtained /\ Supplied /\ AllUnrecognized) => clients = ExpectedDefault

\* C7 (amended): the default order of the node type is used only when the caller
\* supplies nothing (undefined or an empty list); a non-empty supplied list that
\* filtering leaves empty gives an empty order, not the default one.
C7_DefaultOnlyWhenNothingSupplied ==
  SessionObtained =>
     /\ ~Supplied => clients = ExpectedDefault
     /\ (Supplied /\ AllUnrecognized) => (clients = <<>> /\ clients # ExpectedDefault)
     /\ clients = <<>> => (Supplied /\ AllUnrecognized)

C7_Witness ==
  /\ Supplied /\ AllUnrecognized /\ SessionObtained
  /\ clients = <<>> /\ pc = "thrown" /\ result.error = NoPlayableData

\* C8: persona attempts of one call are strictly sequential: at most one attempt
\* is in progress; a persona is queried only after every earlier attempt (query,
\* format selection, URL resolution, download) has ended, and ended in failure;
\* only the race of the attempt in progress can be unsettled.
C8_AttemptsSequential ==
  /\ Len(races) = Len(attempted)
  /\ Len(attempted) - Len(concluded) \in {0, 1}
  /\ Len(attempted) = Len(concluded) + 1 <=> pc \in {"race", "resolveUrl", "download"}
  /\ \A k \in 1..Len(attempted) - 1 : k <= Len(concluded) /\ concluded[k] # "success"
  /\ \A k \in 1..Len(races) : races[k].settled = "pending" => (k = Len(races) /\ pc = "race")

C8_Witness ==
  /\ pc = "race" /\ Len(attempted) = 3
  /\ concluded = <<"downloadFailed", "noUrl">>

\* C9: the metadata step of a persona is decided by whichever of the query and
\* the timer settles first, and stays so decided: an attempt counts as timed out
\* exactly when its race was rejected by the timer; when the timer wins the
\* timeout error is recorded, the loop moves on and the query is left pending
\* (not cancelled); the later settlement of such a query changes nothing of the
\* call (position, recorded error, attempts, result).
C9_RaceDecidedByFirst ==
  \A k \in 1..Len(concluded) :
    /\ concluded[k] = "timeout" <=> races[k].settled = "timeout"
    /\ concluded[k] = "queryError" <=> races[k].settled = "queryError"
    /\ concluded[k] \in {"noFormats", "noAudio", "noUrl", "downloadFailed", "success"}
         <=> races[k].settled = "info"
    /\ races[k].query = "pending" => concluded[k] = "timeout"

C9_TimerWinStep ==
  (Len(concluded') = Len(concluded) + 1 /\ concluded'[Len(concluded')] = "timeout") =>
     /\ lastError' = TimedOut(attempted[idx], idx)
     /\ races'[idx].query = "pending"
     /\ idx' = idx + 1
     /\ pc' \in {"race", "ytdlp"}

C9_LateSettleStep ==
  (\E k \in 1..Len(concluded) :
      /\ races[k].query = "pending"
      /\ k <= Len(races') /\ races'[k].query = "settled")
  => UNCHANGED <<pc, idx, lastError, result, attempted, concluded, legacyCalls, clients,
                 innertubeInstance>>

C9_TimeoutRace ==
  /\ []C9_RaceDecidedByFirst
  /\ [][C9_TimerWinStep]_vars
  /\ [][C9_LateSettleStep]_vars

\* A query that timed out is still pending while a later persona is queried.
C9_Witness ==
  /\ pc = "race" /\ Len(races) = 3
  /\ races[1].query = "pending" /\ concluded[1] = "timeout"
  /\ races[2].query = "settled" /\ concluded[2] = "timeout"

\* C10 (as claimed): after a persona's query failed, timed out or returned no
\* adaptive formats, that persona's error is the recorded (most recent) error
\* and the loop has continued.
C10_Original ==
  LET n == Len(concluded) IN
    (n > 0 /\ concluded[n] \in {"queryError", "timeout", "noFormats"}) =>
       /\ lastError.kind # "none" /\ lastError.attempt = n
       /\ (Len(attempted) = n + 1 \/ legacyCalls = 1)

\* C10 (amended): after a persona's query failed or timed out, that error is the
\* recorded (most recent) error; after it returned no adaptive formats nothing is
\* recorded (a warning is logged): the recorded error is still the one of the
\* most recent earlier attempt that threw, if any; in all three cases the loop
\* has continued with the next persona, or with yt-dlp after the last one.
C10_QueryFailureRecorded ==
  LET n == Len(concluded) IN
    (n > 0 /\ concluded[n] \in {"queryError", "timeout", "noFormats"}) =>
       /\ concluded[n] = "queryError" => lastError = QueryFailed(attempted[n], n)
       /\ concluded[n] = "timeout" => lastError = TimedOut(attempted[n], n)
       /\ concluded[n] = "noFormats" => lastError = LastThrownUpTo(n - 1)
       /\ (Len(attempted) = n + 1 \/ legacyCalls = 1)

C10_Witness ==
  /\ concluded = <<"queryError", "noFormats">>
  /\ lastError = QueryFailed(attempted[1], 1)
  /\ pc = "race" /\ Len(attempted) = 3

\* C11: no persona-level failure is fatal: every persona attempt that has failed,
\* for whatever reason, has been followed by the query of the next persona of the
\* order, or, being the last one, by the yt-dlp fallback; a call that got its
\* session fails only after every persona of the order has been attempted.
C11_PersonaFailureNeverFatal ==
  /\ \A k \in 1..Len(concluded) :
       concluded[k] # "success" =>
          \/ (k < Len(clients) /\ Len(attempted) > k /\ attempted[k + 1] = clients[k + 1])
          \/ (k = Len(clients) /\ legacyCalls = 1)
  /\ (SessionObtained /\ pc = "thrown") =>
       (attempted = clients /\ Len(concluded) = Len(clients))

C11_Witness ==
  /\ pc = "download" /\ Len(attempted) = 3
  /\ concluded = <<"noUrl", "downloadFailed">>

\* C12: as soon as a persona's download has succeeded the call has returned the
\* ExtractedAudio of that persona's attempt (its query result, its download); no
\* later persona has been queried and yt-dlp is not invoked.
C12_ReturnsOnFirstSuccess ==
  \A k \in 1..Len(concluded) :
    concluded[k] = "success" =>
       /\ k = Len(concluded) /\ k = Len(attempted)
       /\ pc = "returned"
       /\ result = Audio(attempted[k], k, videoId)
       /\ legacyCalls = 0
       /\ \A j \in 1..Len(races) : races[j].settled # "pending"

C12_Witness ==
  /\ pc = "returned" /\ Len(clients) = 3 /\ result.kind = "audio"
  /\ concluded = <<"timeout", "success">> /\ attempted = <<clients[1], clients[2]>>

\* C13: the format selected for a persona attempt is an audio-capable format of
\* maximum effective bitrate (the nominal bitrate if present, else the average
\* bitrate if present, else zero), and the earliest-listed among those of maximum
\* effective bitrate; none is selected when no format is audio-capable.
C13_Effective(f) == IF f.bitrate # -1 THEN f.bitrate
                    ELSE IF f.average_bitrate # -1 THEN f.average_bitrate ELSE 0

C13_AudioCapable(f) == f.mime_type = "audio/webm" /\ f.has_audio # "false"

C13_BestFormatSelected ==
  LET fs == adaptive_formats
      cands == {i \in 1..Len(fs) : C13_AudioCapable(fs[i])}
  IN  fsPc \notin {"idle", "query"} =>
        /\ fsPc = "selected" <=> cands # {}
        /\ cands = {} => bestAudio = 0
        /\ cands # {} =>
             /\ bestAudio \in cands
             /\ \A j \in cands : C13_Effective(fs[j]) <= C13_Effective(fs[bestAudio])
             /\ \A j \in cands : C13_Effective(fs[j]) = C13_Effective(fs[bestAudio]) => bestAudio <= j

\* The example of the spec, then a tie: 128000, average 160000, 196000, 196000.
C13_Witness ==
  /\ fsPc = "selected" /\ Len(adaptive_formats) = 3
  /\ \A i \in 1..3 : C13_AudioCapable(adaptive_formats[i])
  /\ adaptive_formats[1].bitrate = 128000 /\ adaptive_formats[1].average_bitrate = -1
  /\ adaptive_formats[2].bitrate = -1 /\ adaptive_formats[2].average_bitrate = 160000
  /\ adaptive_formats[3].bitrate = 196000
  /\ bestAudio = 3

\* C14: resolveUrl tries (1) the format's own decipher, when there is a player
\* and the format has one, (2) the player's decipher, when there is a player,
\* (3) the format's raw url, in that order, each only after the one before it
\* yielded nothing or threw; it returns what the first yielding strategy gave; it
\* never throws; it returns no URL only when every decipher tried yielded nothing
\* or threw and the format has no raw url.
C14_Yields(outcome) == outcome = "url"

C14_NoUrl(u) == u \in {"undefined", ""}

C14_ResolverChain ==
  LET own == player /\ format.decipher # "none"
      ownYields == own /\ C14_Yields(format.decipher)
      viaPlayer == player /\ ~ownYields
      playerYields == viaPlayer /\ C14_Yields(playerDecipher)
      expected == (IF own THEN <<"format">> ELSE <<>>)
                  \o (IF viaPlayer THEN <<"player">> ELSE <<>>)
                  \o (IF ~ownYields /\ ~playerYields THEN <<"raw">> ELSE <<>>)
  IN  /\ IsPrefix(ruTried, expected)
      /\ ruPc \in {"idle", "called", "format", "player", "returned"}
      /\ audioUrl # "throws"
      /\ ruPc = "returned" =>
           /\ ruTried = expected
           /\ audioUrl = (IF ownYields THEN "format"
                          ELSE IF playerYields THEN "player" ELSE format.url)
           /\ C14_NoUrl(audioUrl) <=> (~ownYields /\ ~playerYields /\ C14_NoUrl(format.url))

C14_Witness ==
  /\ ruPc = "returned" /\ player
  /\ format.decipher = "throws" /\ playerDecipher = "" /\ format.url = "raw"
  /\ ruTried = <<"format", "player", "raw">> /\ audioUrl = "raw"

\* The range requests sent so far, in order (the first request is the full GET).
RangeRequests == IF dlRequests = <<>> THEN <<>> ELSE Tail(dlRequests)

FullFailures == {"rejected", "notOk", "tooLarge", "readFailed", "empty"}

ChunkedPhaseErrors ==
  {"fetch failed", "body read failed", "Audio download failed: HTTP",
   "Audio download returned empty response", "Chunk download failed: HTTP"}

\* C15: a full GET that fails in any way (fetch rejected, status not OK, declared
\* length over the cap, body unreadable, body empty) is never thrown to the
\* caller but is followed by the first range request; downloadAudio throws only
\* after such a failure and only with an error of the chunked phase.
C15_FailsOnlyWhenBothPhasesFail ==
  /\ fullOutcome \in FullFailures =>
       /\ Len(dlRequests) >= 2
       /\ dlRequests[2] = [kind |-> "range", from |-> 0, to |-> 524287]
       /\ dlPc \in {"firstFetch", "firstBody", "chunkFetch", "chunkBody", "returned", "thrown"}
  /\ fullOutcome = "none" => dlPc \in {"called", "fullGet", "fullBody"}
  /\ fullOutcome = "returned" => dlPc = "returned"
  /\ dlPc = "thrown" =>
       /\ fullOutcome \in FullFailures
       /\ dlError \in ChunkedPhaseErrors
       /\ dlResult = <<>>

C15_Witness ==
  /\ dlPc = "thrown"
  /\ fullOutcome = "rejected"
  /\ Len(dlRequests) = 2
  /\ dlError = "Audio download failed: HTTP"

\* C16: when the full GET is answered OK, with a declared content length that is
\* not above the cap (or none), and its body is readable and non-empty,
\* downloadAudio returns exactly that body and sends no range request.
C16_FullGetReturnsBody ==
  ( /\ fullResp # NoResponse
    /\ fullResp.status \in 200..299
    /\ ~(fullResp.header.kind = "num" /\ fullResp.header.n > MAX_FULL_GET_SIZE)
    /\ fullResp.readable
    /\ fullResp.len > 0 )
  => /\ dlPc \in {"fullBody", "returned"}
     /\ RangeRequests = <<>>
     /\ dlPc = "returned" =>
          dlResult = <<[kind |-> "full", from |-> 0, len |-> fullResp.len]>>

C16_Witness ==
  /\ dlPc = "returned"
  /\ fullResp.status = 200
  /\ fullResp.header = [kind |-> "num", n |-> 1000]
  /\ dlResult = <<[kind |-> "full", from |-> 0, len |-> 1000]>>
  /\ Len(dlRequests) = 1

\* C17: when the full GET is answered OK with a declared content length above
\* the cap, its body is cancelled, never read, and the first range request is
\* sent.
C17_OversizedCancelledThenChunked ==
  ( /\ fullResp # NoResponse
    /\ fullResp.status \in 200..299
    /\ fullResp.header.kind = "num"
    /\ fullResp.header.n > MAX_FULL_GET_SIZE )
  => /\ fullBody = "cancelled"
     /\ fullOutcome = "tooLarge"
     /\ Len(RangeRequests) >= 1
     /\ RangeRequests[1] = [kind |-> "range", from |-> 0, to |-> 524287]

C17_Witness ==
  /\ fullBody = "cancelled"
  /\ fullResp.header.n = MAX_FULL_GET_SIZE + 1
  /\ dlPc = "returned"
  /\ Len(dlResult) = 3
  /\ dlResult[1].kind = "range"

\* The bytes range request rq asks for from a resource of total size t.
C18_Asked(rq, t) == (IF rq.to < t - 1 THEN rq.to ELSE t - 1) - rq.from + 1

\* C18: in the chunked phase the range requests go out one at a time, each only
\* after the body of the previous response was read; the first is [0,524287];
\* every later one is [start, min(start+524287, T-1)] with start < T, T the
\* reported total, and each start after the second is the previous plus 524288;
\* a multi-chunk payload is the chunks in request order, returned once start has
\* reached T; and when every response carried exactly the bytes asked for, the
\* second request starts at 524288 and the payload has length exactly T.
C18_SequentialWindows ==
  LET rr == RangeRequests
      n == Len(rr)
      T == totalSize
  IN  /\ bodiesRead <= n
      /\ n <= bodiesRead + 1
      /\ dlPc \in {"firstFetch", "firstBody", "chunkFetch", "chunkBody"} => n = bodiesRead + 1
      /\ n >= 1 => rr[1] = [kind |-> "range", from |-> 0, to |-> 524287]
      /\ \A i \in 2..n :
           /\ rr[i].from < T
           /\ rr[i].to = (IF rr[i].from + 524287 < T - 1 THEN rr[i].from + 524287 ELSE T - 1)
           /\ i >= 3 => rr[i].from = rr[i - 1].from + 524288
           /\ Len(chunks) >= i - 1
           /\ \A j \in 1..(i - 1) : chunks[j].from = rr[j].from
      /\ (dlPc = "returned" /\ n >= 2) =>
           /\ dlResult = chunks
           /\ Len(dlResult) = n
           /\ \A i \in 1..n : dlResult[i].from = rr[i].from
           /\ rr[n].from + 524288 >= T
           /\ (\A i \in 1..n : dlResult[i].len = C18_Asked(rr[i], T)) =>
                /\ rr[2].from = 524288
                /\ ByteLength(dlResult) = T

C18_Witness ==
  /\ dlPc = "returned"
  /\ resource = 1200000
  /\ totalSize = 1200000
  /\ RangeRequests = << [kind |-> "range", from |-> 0, to |-> 524287],
                        [kind |-> "range", from |-> 524288, to |-> 1048575],
                        [kind |-> "range", from |-> 1048576, to |-> 1199999] >>
  /\ bodiesRead = 3
  /\ ByteLength(dlResult) = 1200000

\* The step in which the first chunk, non-empty, arrives with a content-range
\* that is missing or unusable, or with at least as many bytes as the reported
\* total, returns that chunk alone and sends nothing.
C19_Step ==
  ( /\ dlPc = "firstBody"
    /\ resp.readable
    /\ resp.len > 0
    /\ (resp.header.kind # "num" \/ resp.len >= resp.header.n) )
  => /\ dlPc' = "returned"
     /\ dlResult' = <<[kind |-> "range", from |-> 0, len |-> resp.len]>>
     /\ dlRequests' = dlRequests

\* C19: if the first range response's content-range is missing or cannot be
\* parsed, or the first chunk is at least as long as the reported total,
\* downloadChunked returns the first chunk alone and sends no second range
\* request.
C19_SingleChunkShortCircuit == [][C19_Step]_vars

C19_Witness ==
  /\ dlPc = "returned"
  /\ Len(RangeRequests) = 1
  /\ resp.header.kind = "garbled"
  /\ resp.len = CHUNK_SIZE + 1
  /\ resource > CHUNK_SIZE + 1
  /\ dlResult = <<[kind |-> "range", from |-> 0, len |-> resp.len]>>

\* A range response whose status is neither OK nor 206, or a first chunk that
\* is empty, has made the call throw, with the failing request the last one sent
\* and nothing returned.
C20_Fatal ==
  LET n == Len(RangeRequests)
      badStatus == resp # NoResponse /\ resp.status \notin 200..299
      emptyFirst == n = 1 /\ bodiesRead = 1 /\ resp.len = 0
  IN  /\ badStatus => (dlPc = "thrown" /\ n = bodiesRead + 1)
      /\ emptyFirst => dlPc = "thrown"
      /\ dlPc = "thrown" => dlResult = <<>>

\* C20: in the chunked phase a first response that is neither OK nor 206, an
\* empty first chunk, or a later response that is neither OK nor 206 makes
\* the whole call throw; after the throw no request is sent and no payload is
\* ever returned, whatever had been fetched.
C20_AllOrNothing ==
  /\ []C20_Fatal
  /\ [][dlPc = "thrown" => (dlRequests' = dlRequests /\ dlResult' = <<>> /\ dlPc' = "thrown")]_vars

C20_Witness ==
  /\ dlPc = "thrown"
  /\ Len(RangeRequests) = 2
  /\ resp.status = 403
  /\ chunks # <<>>
  /\ dlResult = <<>>

\* The creations that have fulfilled.
OkCreations == {settleOrder[i].creation : i \in {j \in DOMAIN settleOrder : settleOrder[j].ok}}

RECURSIVE FirstOkIn(_)
\* The first creation that fulfilled, 0 when none has.
FirstOkIn(so) ==
  IF so = <<>> THEN 0 ELSE IF Head(so).ok THEN Head(so).creation ELSE FirstOkIn(Tail(so))

RECURSIVE LastOkIn(_)
\* The latest creation that fulfilled, 0 when none has.
LastOkIn(so) ==
  IF so = <<>> THEN 0
  ELSE IF so[Len(so)].ok THEN so[Len(so)].creation ELSE LastOkIn(SubSeq(so, 1, Len(so) - 1))

\* Caller c's getInnertube call starts in this step.
CallStarts(c) == getCalls[c].pc = "idle" /\ getCalls'[c].pc # "idle"

\* C21 as stated: every call made after a creation has succeeded returns the
\* session of that creation.
C21_Original ==
  \A c \in Callers :
    (getCalls[c].pc = "returned" /\ getCalls[c].cached) =>
      getCalls[c].session = FirstOkIn(settleOrder)

C21_CallAfterSuccess ==
  \A c \in Callers :
    (CallStarts(c) /\ innertubeInstance # 0) =>
      /\ creations' = creations
      /\ getCalls'[c].pc = "returned"
      /\ getCalls'[c].session = innertubeInstance
      /\ innertubeInstance' = innertubeInstance

C21_StableWhenNonePending ==
  (innertubeInstance # 0 /\ \A c \in Callers : getCalls[c].pc # "creating") =>
    innertubeInstance' = innertubeInstance

\* C21 (amended): once a creation has succeeded the shared reference is set for
\* good; a call made then starts no creation and returns the reference as it is
\* at that moment; the reference no longer changes once no creation is pending,
\* so calls that overlap no pending creation, two sequential calls among them,
\* return the same reference.
C21_ReusedOnceCreated ==
  /\ [](OkCreations # {} => innertubeInstance \in OkCreations)
  /\ [][C21_CallAfterSuccess]_vars
  /\ [][C21_StableWhenNonePending]_vars

C21_Witness ==
  \E c, d \in Callers :
    /\ c # d
    /\ getCalls[c].pc = "returned" /\ getCalls[c].cached
    /\ getCalls[d].pc = "returned" /\ getCalls[d].cached
    /\ getCalls[c].session = getCalls[d].session
    /\ getCalls[c].session = innertubeInstance
    /\ creations = 1

\* Caller c's creation rejects in this step.
RejectsFor(c) ==
  /\ getCalls[c].pc = "creating"
  /\ Len(settleOrder') = Len(settleOrder) + 1
  /\ settleOrder'[Len(settleOrder')] = [creation |-> getCalls[c].creation, ok |-> FALSE]

C22_RejectStep ==
  \A c \in Callers :
    RejectsFor(c) => (getCalls'[c].pc = "thrown" /\ innertubeInstance' = innertubeInstance)

C22_CallWhileUnset ==
  \A c \in Callers :
    (CallStarts(c) /\ innertubeInstance = 0) =>
      /\ creations' = creations + 1
      /\ getCalls'[c].pc = "creating"
      /\ getCalls'[c].creation = creations'
      /\ \A i \in DOMAIN settleOrder : settleOrder[i].creation # creations'

\* C22: a creation that rejects makes its caller's getInnertube throw and does
\* not write the shared reference, which therefore never holds a failed
\* creation and stays unset while no creation has fulfilled; a call that finds
\* it unset starts a creation of its own, a new one.
C22_FailureNotCached ==
  /\ [](innertubeInstance \in OkCreations \cup {0})
  /\ [](OkCreations = {} => innertubeInstance = 0)
  /\ [][C22_RejectStep]_vars
  /\ [][C22_CallWhileUnset]_vars

C22_Witness ==
  \E c \in Callers :
    /\ settleOrder = <<[creation |-> 1, ok |-> FALSE]>>
    /\ innertubeInstance = 0
    /\ getCalls[c].pc = "creating"
    /\ getCalls[c].creation = 2

\* C23: callers that reach getInnertube while the reference is unset each hold
\* a creation of their own, whatever else is pending; a caller whose creation
\* fulfils goes on with the session it created; and the shared reference is
\* always the session of the creation that fulfilled last, so after two racing
\* creations have both fulfilled it is the second one's.
C23_LastSettledWins ==
  /\ innertubeInstance = LastOkIn(settleOrder)
  /\ \A c \in Callers :
       /\ getCalls[c].pc = "creating" =>
            /\ getCalls[c].creation \in 1..creations
            /\ \A i \in DOMAIN settleOrder : settleOrder[i].creation # getCalls[c].creation
            /\ \A d \in Callers \ {c} :
                 getCalls[d].pc = "creating" => getCalls[d].creation # getCalls[c].creation
       /\ (getCalls[c].pc = "returned" /\ ~getCalls[c].cached) =>
            /\ getCalls[c].session = getCalls[c].creation
            /\ getCalls[c].session \in OkCreations

C23_Witness ==
  \E c, d \in Callers :
    /\ getCalls[c].pc = "returned" /\ getCalls[c].session = 1 /\ ~getCalls[c].cached
    /\ getCalls[d].pc = "returned" /\ getCalls[d].session = 2 /\ ~getCalls[d].cached
    /\ settleOrder = <<[creation |-> 2, ok |-> TRUE], [creation |-> 1, ok |-> TRUE]>>
    /\ innertubeInstance = 1

\* Invocation i has finished and nothing in its cleanup failed.
FinishedClean(i) == ytCalls[i].pc \in {"returned", "thrown"} /\ ~ytCalls[i].cleanupFailed

\* C24 as stated: when an invocation has finished, by returning or by throwing,
\* and none of its deletions failed, tmpdir holds no file that the invocation
\* wrote under its prefix (yt-<videoId>-<stamp>), and the error thrown is the
\* original failure's.
C24_Original ==
  \A i \in Invocations :
    /\ FinishedClean(i) =>
         \A f \in tmpFiles : ~(NameOf(f) = OutName(ytCalls[i]) /\ f.producer = i)
    /\ ytCalls[i].pc = "thrown" =>
         ytCalls[i].error \in {"metadata failed", "download failed", "readdir failed",
                               "yt-dlp produced no output file", "readFile failed"}

\* C25 as stated: an invocation reads as its output only a file it produced
\* itself, and unlinks no file that another invocation is still writing or
\* has yet to read.
C25_Original ==
  \A i \in Invocations :
    /\ ytCalls[i].pc \in {"unlink", "returned"} => ytCalls[i].data.producer = i
    /\ ytCalls[i].tookFrom = ""

\* C26: the second range request starts at the first chunk's actual byte
\* length, whatever that is; each later request starts 524288 after the one
\* before it, right after that one's last byte; every request of the loop ends
\* at min(start+524287, T-1), T the reported total, and asks for at least one
\* byte; and when every response carried exactly the bytes asked for, the chunks
\* of the payload lie end to end from offset 0 to T, each offset covered once.
C26_ContiguousRequests ==
  LET rr == RangeRequests
      n == Len(rr)
      T == totalSize
  IN  /\ n >= 2 => (chunks # <<>> /\ rr[2].from = chunks[1].len)
      /\ \A i \in 3..n :
           /\ rr[i].from = rr[i - 1].from + 524288
           /\ rr[i].from = rr[i - 1].to + 1
      /\ \A i \in 2..n :
           /\ rr[i].to = (IF rr[i].from + 524287 < T - 1 THEN rr[i].from + 524287 ELSE T - 1)
           /\ rr[i].from <= rr[i].to
           /\ rr[i].to <= T - 1
      /\ (/\ dlPc = "returned"
          /\ n >= 2
          /\ \A i \in 1..n : dlResult[i].len = rr[i].to - dlResult[i].from + 1)
         => /\ dlResult[1].from = 0
            /\ \A i \in 1..(n - 1) : dlResult[i + 1].from = dlResult[i].from + dlResult[i].len
            /\ dlResult[n].from + dlResult[n].len = T

C26_Witness ==
  /\ dlPc = "returned"
  /\ totalSize = 1200000
  /\ Len(chunks) = 4
  /\ chunks[1].len = 1000
  /\ RangeRequests = << [kind |-> "range", from |-> 0, to |-> 524287],
                        [kind |-> "range", from |-> 1000, to |-> 525287],
                        [kind |-> "range", from |-> 525288, to |-> 1049575],
                        [kind |-> "range", from |-> 1049576, to |-> 1199999] >>

\* C27 as stated: the full GET phase never reads, and never returns, a body
\* longer than MAX_FULL_GET_SIZE, whatever the response's content-length says
\* or omits.
C27_Original ==
  /\ fullBody = "read" => fullResp.len <= MAX_FULL_GET_SIZE
  /\ \A k \in DOMAIN dlResult :
       dlResult[k].kind = "full" => dlResult[k].len <= MAX_FULL_GET_SIZE

\* C28: when session creation fails, extractAudio throws the creation error;
\* no persona has been queried and extractWithYtDlp has not been invoked; the
\* fallback is invoked only by calls that got a session and ran the loop.
C28_CreationFailureFatal ==
  /\ (innertube = 0 /\ pc \notin {"idle", "create"}) =>
       /\ pc = "thrown"
       /\ result = Thrown(CreateFailed, videoId)
  /\ innertube = 0 =>
       /\ attempted = <<>>
       /\ races = <<>>
       /\ concluded = <<>>
       /\ legacyCalls = 0
  /\ legacyCalls > 0 => (innertube # 0 /\ attempted = clients)
  /\ result.error = CreateFailed => (pc = "thrown" /\ innertube = 0)

C28_Witness ==
  /\ pc = "thrown"
  /\ result = Thrown(CreateFailed, videoId)
  /\ innertubeInstance = 0
  /\ attempted = <<>>
  /\ legacyCalls = 0

\* The persona loop only moves forward through its finite list.
C29_LoopAdvances ==
  (pc \notin {"idle", "create"} /\ pc' \notin {"idle", "create"}) =>
    /\ idx' >= idx
    /\ idx' <= Len(clients) + 1
    /\ clients' = clients
    /\ Len(attempted') <= Len(clients)

\* The chunk loop's start offset grows with every chunk read and stays below
\* the total while a request is out.
C29_StartAdvances ==
  /\ dlPc = "chunkBody" /\ dlPc' \in {"chunkFetch", "returned"} => start' > start
  /\ dlPc' = "chunkFetch" => start' < totalSize'
  /\ dlPc \in {"chunkFetch", "chunkBody"} => totalSize' = totalSize

\* C29: provided every external call settles, every extractAudio call that
\* has started ends, returning or throwing, and so does every downloadChunked
\* call: the persona loop goes once through a finite list and the chunk loop's
\* start offset strictly increases until it reaches the total.
C29_Terminates ==
  /\ (pc \in {"create", "race", "resolveUrl", "download", "ytdlp"}) ~> (pc \in {"returned", "thrown"})
  /\ (dlPc \in {"firstFetch", "firstBody", "chunkFetch", "chunkBody"})
       ~> (dlPc \in {"returned", "thrown"})
  /\ [][C29_LoopAdvances]_vars
  /\ [][C29_StartAdvances]_vars

C29_Witness ==
  /\ dlPc = "returned"
  /\ Len(dlResult) = 4
  /\ start >= totalSize

====
